---- MODULE Spec2Model ----
(***************************************************************************)
(* Model of the NRS Accounting scrapers of r0bug/teamtime:                 *)
(*   scraper-imports/nrs_scraper.py            class NRSScraper, main      *)
(*   scraper-imports/nrs_daily_vendor_sales.py class NRSVendorSales, main  *)
(*                                                                         *)
(* A Python str whose content the code inspects or builds (cell texts,     *)
(* hrefs, vendor ids, dates, URLs) is a sequence of chunks: data strings   *)
(* have one character per chunk, literals of the source are written with   *)
(* one chunk per run of URL-safe characters.  The remote server and the    *)
(* requests library are the environment: every network call either raises  *)
(* a transport exception or returns a response drawn from a small set.     *)
(* A float is held exactly, as an integer number of hundredths.            *)
(***************************************************************************)
EXTENDS Integers, Sequences, FiniteSets, TLC

VARIABLES
    client,      \* which session class the object is an instance of
    logged_in,   \* self.logged_in
    page,        \* the document the server returns for a report request
    last,        \* the last method call: inputs, requests issued, outcome
    pc,          \* position of main(); "api" when methods are called freely
    args,        \* parsed command line of main()
    pending      \* how main() is about to end: return code or exception

vars == <<client, logged_in, page, last, pc, args, pending>>

----------------------------------------------------------------------------
(* Bounds *)

MaxRows == 2        \* rows of a report table
MaxVendors == 2     \* entries of a vendor index

----------------------------------------------------------------------------
(* Python values *)

\* None where a str is expected; no chunk of a real string is "<None>"
None == <<"<None>">>

Clients == {"NRSScraper", "NRSVendorSales"}

BASE_URL == "https://www.nrsaccounting.com"
PDF_URL == "https://www.nrsaccounting.com/ap/vendorInventorySalesPDF"

\* str.replace(ch, ''): drop every occurrence of one character
RECURSIVE Remove(_, _)
Remove(s, ch) ==
    IF s = <<>> THEN <<>>
    ELSE IF s[1] = ch THEN Remove(Tail(s), ch)
    ELSE <<s[1]>> \o Remove(Tail(s), ch)

Digits == {"0", "1", "2", "3", "4", "5", "6", "7", "8", "9"}

DigitVal(c) ==
    CASE c = "0" -> 0 [] c = "1" -> 1 [] c = "2" -> 2 [] c = "3" -> 3
      [] c = "4" -> 4 [] c = "5" -> 5 [] c = "6" -> 6 [] c = "7" -> 7
      [] c = "8" -> 8 [] c = "9" -> 9

AllDigits(s) == \A i \in 1..Len(s) : s[i] \in Digits

RECURSIVE DigitsVal(_)
DigitsVal(s) ==
    IF s = <<>> THEN 0 ELSE DigitsVal(SubSeq(s, 1, Len(s) - 1)) * 10 + DigitVal(s[Len(s)])

----------------------------------------------------------------------------
(* Python dict, in insertion order: a sequence of <<key, value>> pairs *)

DictHas(d, k) == \E i \in 1..Len(d) : d[i][1] = k

DictGet(d, k) == d[CHOOSE i \in 1..Len(d) : d[i][1] = k][2]

\* d[k] = v: an existing key keeps its position
DictSet(d, k, v) ==
    IF DictHas(d, k)
    THEN [i \in 1..Len(d) |-> IF d[i][1] = k THEN <<k, v>> ELSE d[i]]
    ELSE Append(d, <<k, v>>)

----------------------------------------------------------------------------
(* str(int), float(str), int(str) *)

\* None where an int is expected
NoneInt == -1

DigitChar(n) ==
    CASE n = 0 -> "0" [] n = 1 -> "1" [] n = 2 -> "2" [] n = 3 -> "3"
      [] n = 4 -> "4" [] n = 5 -> "5" [] n = 6 -> "6" [] n = 7 -> "7"
      [] n = 8 -> "8" [] n = 9 -> "9"

RECURSIVE NatStr(_)
NatStr(n) == IF n < 10 THEN <<DigitChar(n)>> ELSE NatStr(n \div 10) \o <<DigitChar(n % 10)>>

\* str(x) of an int or None
PyStr(n) == IF n = NoneInt THEN <<"N", "o", "n", "e">> ELSE NatStr(n)

\* truth value of an int-or-None and of a str-or-None
TruthyInt(n) == n # NoneInt /\ n # 0
TruthyStr(s) == s # None /\ s # <<>>

Signs == {"-", "+"}

Unsigned(s) == IF s # <<>> /\ s[1] \in Signs THEN Tail(s) ELSE s
SignOf(s) == IF s # <<>> /\ s[1] = "-" THEN -1 ELSE 1

\* position of the first "." of s, Len(s) + 1 if there is none
DotPos(s) ==
    IF \E i \in 1..Len(s) : s[i] = "."
    THEN CHOOSE i \in 1..Len(s) : s[i] = "." /\ \A j \in 1..(i - 1) : s[j] # "."
    ELSE Len(s) + 1

\* the decimal literals float() accepts among strings of digits, signs and
\* dots: [sign] digits [. [digits]]  or  [sign] . digits
IsFloatLit(s) ==
    LET u == Unsigned(s)
        d == DotPos(u)
        ip == SubSeq(u, 1, d - 1)
        fp == SubSeq(u, d + 1, Len(u))
    IN /\ AllDigits(ip) /\ AllDigits(fp)
       /\ Len(ip) + Len(fp) > 0

\* number of hundredths of a literal with at most two fractional digits
FloatLitVal(s) ==
    LET u == Unsigned(s)
        d == DotPos(u)
        ip == SubSeq(u, 1, d - 1)
        fp == SubSeq(u, d + 1, Len(u))
        f2 == SubSeq(fp \o <<"0", "0">>, 1, 2)
    IN SignOf(s) * (DigitsVal(ip) * 100 + DigitsVal(f2))

\* int() accepts [sign] digits
IsIntLit(s) == LET u == Unsigned(s) IN u # <<>> /\ AllDigits(u)

_parse_currency(value) ==
    LET v == Remove(Remove(value, "$"), ",") IN
    IF IsFloatLit(v) THEN FloatLitVal(v) ELSE 0

_parse_percent(value) ==
    LET v == Remove(value, "%") IN
    IF IsFloatLit(v) THEN FloatLitVal(v) ELSE 0

_parse_int(value) ==
    LET v == Remove(value, ",") IN
    IF IsIntLit(v) THEN SignOf(v) * DigitsVal(Unsigned(v)) ELSE 0

----------------------------------------------------------------------------
(* Periods, _build_date_params, _build_pdf_url, urlencode *)

Period(month, year, start_date, end_date) ==
    [month |-> month, year |-> year, start_date |-> start_date, end_date |-> end_date]

_build_date_params_MonthFirst(p) ==
    IF TruthyInt(p.month)
    THEN <<<<<<"frmDateRangeOrYear">>, <<"M">>>>,
           <<<<"frmMonth">>, PyStr(p.month)>>,
           <<<<"frmYear">>, PyStr(p.year)>>>>
    ELSE IF TruthyStr(p.start_date) /\ TruthyStr(p.end_date)
    THEN <<<<<<"frmDateRangeOrYear">>, <<"D">>>>,
           <<<<"invoiceDate_op">>, <<"2">>>>,
           <<<<"invoiceDate">>, p.start_date>>,
           <<<<"invoiceDate_two">>, p.end_date>>,
           <<<<"invoiceDate_thr">>, <<>>>>,
           <<<<"invoiceDate_rg">>, <<"0">>>>,
           <<<<"invoiceDate_d">>, <<>>>>>>
    ELSE <<<<<<"frmDateRangeOrYear">>, <<"Y">>>>,
           <<<<"frmYear">>, PyStr(p.year)>>>>

_build_date_params(p) ==
    IF TruthyStr(p.start_date) /\ TruthyStr(p.end_date)
    THEN <<<<<<"frmDateRangeOrYear">>, <<"D">>>>,
           <<<<"invoiceDate_op">>, <<"2">>>>,
           <<<<"invoiceDate">>, p.start_date>>,
           <<<<"invoiceDate_two">>, p.end_date>>,
           <<<<"invoiceDate_thr">>, <<>>>>,
           <<<<"invoiceDate_rg">>, <<"0">>>>,
           <<<<"invoiceDate_d">>, <<>>>>>>
    ELSE IF TruthyInt(p.month)
    THEN <<<<<<"frmDateRangeOrYear">>, <<"M">>>>,
           <<<<"frmMonth">>, PyStr(p.month)>>,
           <<<<"frmYear">>, PyStr(p.year)>>>>
    ELSE <<<<<<"frmDateRangeOrYear">>, <<"Y">>>>,
           <<<<"frmYear">>, PyStr(p.year)>>>>

QuoteChunk_Raw(c) == <<c>>

\* urllib.parse.quote_plus of one chunk
QuoteChunk(c) ==
    CASE c = " " -> <<"+">>
      [] c = "/" -> <<"%", "2", "F">>
      [] c = "[" -> <<"%", "5", "B">>
      [] c = "]" -> <<"%", "5", "D">>
      [] c = "&" -> <<"%", "2", "6">>
      [] c = "=" -> <<"%", "3", "D">>
      [] c = "%" -> <<"%", "2", "5">>
      [] c = "+" -> <<"%", "2", "B">>
      [] c = "?" -> <<"%", "3", "F">>
      [] c = "$" -> <<"%", "2", "4">>
      [] c = "," -> <<"%", "2", "C">>
      [] OTHER -> <<c>>

RECURSIVE QuotePlus(_)
QuotePlus(s) == IF s = <<>> THEN <<>> ELSE QuoteChunk(s[1]) \o QuotePlus(Tail(s))

\* urllib.parse.urlencode of an ordered mapping
RECURSIVE urlencode(_)
urlencode(params) ==
    IF params = <<>> THEN <<>>
    ELSE QuotePlus(params[1][1]) \o <<"=">> \o QuotePlus(params[1][2])
         \o (IF Len(params) > 1 THEN <<"&">> ELSE <<>>)
         \o urlencode(Tail(params))

_build_pdf_url(vendor_id, p, pdf_mode) ==
    LET params == <<<<<<"go">>, <<"yes">>>>,
                    <<<<"search">>, <<"1">>>>,
                    <<<<"apVendorId", "[", "]">>, vendor_id>>,
                    <<<<"rptSetupId">>, <<"4", "3", "4">>>>,
                    <<<<"pdf">>, pdf_mode>>>>
        dates == IF TruthyStr(p.start_date) /\ TruthyStr(p.end_date)
                 THEN <<<<<<"invoiceDate_op">>, <<"2">>>>,
                        <<<<"invoiceDate">>, p.start_date>>,
                        <<<<"invoiceDate_two">>, p.end_date>>,
                        <<<<"invoiceDate_thr">>, <<>>>>,
                        <<<<"invoiceDate_rg">>, <<"0">>>>,
                        <<<<"invoiceDate_d">>, <<>>>>>>
                 ELSE IF TruthyInt(p.month)
                 THEN <<<<<<"invoiceMonth">>, PyStr(p.month)>>,
                        <<<<"invoiceYear">>, PyStr(p.year)>>>>
                 ELSE <<<<<<"invoiceYear">>, PyStr(p.year)>>>>
    IN <<PDF_URL, "?">> \o urlencode(params \o dates)

----------------------------------------------------------------------------
(* HTML documents: what BeautifulSoup finds in them *)

\* a <tr>: whether it has class Hover, the texts of its <td> cells
\* (get_text(strip=True)) and the hrefs of its <a href> anchors, in order
Row(hover, cells, links) == [hover |-> hover, cells |-> cells, links |-> links]

\* a document: whether it has a <table>, whether that table has
\* id="ListSectionTable" and class="ListingTable", and the table's <tr> rows
Doc(hasId, hasClass, rows) ==
    [table |-> TRUE, hasId |-> hasId, hasClass |-> hasClass, rows |-> rows]

\* re.search(r'apVendorId\[\]=(\d+)', href) matches at chunk i
MatchAt(h, i) ==
    /\ i + 4 <= Len(h)
    /\ h[i] = "apVendorId" /\ h[i + 1] = "[" /\ h[i + 2] = "]" /\ h[i + 3] = "="
    /\ h[i + 4] \in Digits

\* the greedy run of digits of h that starts at chunk i
RECURSIVE DigitRun(_, _)
DigitRun(h, i) ==
    IF i <= Len(h) /\ h[i] \in Digits THEN <<h[i]>> \o DigitRun(h, i + 1) ELSE <<>>

\* match.group(1) of the leftmost match, None when re.search finds no match
HrefVendorId(h) ==
    IF \E i \in 1..Len(h) : MatchAt(h, i)
    THEN LET i == CHOOSE k \in 1..Len(h) :
                    MatchAt(h, k) /\ \A j \in 1..(k - 1) : ~MatchAt(h, j)
         IN DigitRun(h, i + 4)
    ELSE None

\* the loop over row.find_all('a', href=True): the id of the first anchor
\* that matches, None when the loop ends without a match
RECURSIVE FirstLinkId(_)
FirstLinkId(links) ==
    IF links = <<>> THEN None
    ELSE IF HrefVendorId(links[1]) # None THEN HrefVendorId(links[1])
    ELSE FirstLinkId(Tail(links))

IsHover(row) == row.hover

\* soup.find('table', {'class': 'ListingTable', 'id': 'ListSectionTable'})
FindListingTable(doc) == doc.table /\ doc.hasId /\ doc.hasClass

\* soup.find('table', {'id': 'ListSectionTable'})
FindSectionTable(doc) == doc.table /\ doc.hasId

----------------------------------------------------------------------------
(* NRSScraper._parse_vendor_totals *)

SummaryMinCells == 6

vendor_data(cells) ==
    [vendor |-> cells[1],
     quantity |-> _parse_int(cells[2]),
     total_price |-> _parse_currency(cells[3]),
     vendor_payment_pct |-> _parse_percent(cells[4]),
     vendor_amount |-> _parse_currency(cells[5]),
     retained_amount |-> _parse_currency(cells[6])]

\* one iteration of "for row in rows" on the accumulators <<vendors, vendor_ids>>
TotalsRowStep(row, acc) ==
    IF Len(row.cells) >= SummaryMinCells
    THEN LET id == FirstLinkId(row.links) IN
         <<Append(acc[1], vendor_data(row.cells)),
           IF id # None THEN DictSet(acc[2], row.cells[1], id) ELSE acc[2]>>
    ELSE acc

\* a loop that stops at the first short row
RECURSIVE TotalsLoop_BreakOnShort(_, _, _)
TotalsLoop_BreakOnShort(rows, i, acc) ==
    IF i > Len(rows) \/ Len(rows[i].cells) < SummaryMinCells THEN acc
    ELSE TotalsLoop_BreakOnShort(rows, i + 1, TotalsRowStep(rows[i], acc))

RECURSIVE TotalsLoop(_, _, _)
TotalsLoop(rows, i, acc) ==
    IF i > Len(rows) THEN acc
    ELSE TotalsLoop(rows, i + 1, TotalsRowStep(rows[i], acc))

\* <<vendors, vendor_ids>>
_parse_vendor_totals(doc) ==
    IF ~FindListingTable(doc) THEN <<<<>>, <<>>>>
    ELSE TotalsLoop(SelectSeq(doc.rows, IsHover), 1, <<<<>>, <<>>>>)

----------------------------------------------------------------------------
(* NRSScraper._parse_vendor_detail *)

DetailMinCells == 7

item_data(cells, vendor_name, vendor_id) ==
    [vendor |-> vendor_name,
     vendor_id |-> vendor_id,
     stock_number |-> cells[1],
     item_name |-> cells[2],
     description |-> cells[3],
     quantity |-> _parse_int(cells[4]),
     total_price |-> _parse_currency(cells[5]),
     vendor_amount |-> _parse_currency(cells[6]),
     retained_amount |-> _parse_currency(cells[7])]

DetailRowStep(row, items, vendor_name, vendor_id) ==
    IF Len(row.cells) >= DetailMinCells
    THEN Append(items, item_data(row.cells, vendor_name, vendor_id))
    ELSE items

RECURSIVE DetailLoop(_, _, _, _, _)
DetailLoop(rows, i, items, vendor_name, vendor_id) ==
    IF i > Len(rows) THEN items
    ELSE DetailLoop(rows, i + 1, DetailRowStep(rows[i], items, vendor_name, vendor_id),
                    vendor_name, vendor_id)

_parse_vendor_detail(doc, vendor_name, vendor_id) ==
    IF ~FindListingTable(doc) THEN <<>>
    ELSE DetailLoop(SelectSeq(doc.rows, IsHover), 1, <<>>, vendor_name, vendor_id)

----------------------------------------------------------------------------
(* NRSVendorSales._parse_vendor_sales *)

vendor_sale(row) ==
    [vendor_id |-> FirstLinkId(row.links),
     vendor_name |-> row.cells[1],
     total_sales |-> _parse_currency(row.cells[3]),
     vendor_amount |-> _parse_currency(row.cells[5]),
     retained_amount |-> _parse_currency(row.cells[6])]

\* acc = [vendors, total_sales, total_vendor_amount, total_retained]
SalesRowStep(row, acc) ==
    IF Len(row.cells) >= SummaryMinCells
    THEN LET v == vendor_sale(row) IN
         [vendors |-> Append(acc.vendors, v),
          total_sales |-> acc.total_sales + v.total_sales,
          total_vendor_amount |-> acc.total_vendor_amount + v.vendor_amount,
          total_retained |-> acc.total_retained + v.retained_amount]
    ELSE acc

RECURSIVE SalesLoop(_, _, _)
SalesLoop(rows, i, acc) ==
    IF i > Len(rows) THEN acc
    ELSE SalesLoop(rows, i + 1, SalesRowStep(rows[i], acc))

\* the 'totals' of a result without a table: {}
NoTotals == [empty |-> TRUE, total_sales |-> 0, total_vendor_amount |-> 0,
             total_retained |-> 0, vendor_count |-> 0]

\* [date, vendors, totals]; round(x, 2) leaves a sum of hundredths as it is
_parse_vendor_sales(doc, date) ==
    IF ~FindSectionTable(doc)
    THEN [date |-> date, vendors |-> <<>>, totals |-> NoTotals]
    ELSE LET acc == SalesLoop(SelectSeq(doc.rows, IsHover), 1,
                              [vendors |-> <<>>, total_sales |-> 0,
                               total_vendor_amount |-> 0, total_retained |-> 0])
         IN [date |-> date,
             vendors |-> acc.vendors,
             totals |-> [empty |-> FALSE,
                         total_sales |-> acc.total_sales,
                         total_vendor_amount |-> acc.total_vendor_amount,
                         total_retained |-> acc.total_retained,
                         vendor_count |-> Len(acc.vendors)]]

----------------------------------------------------------------------------
(* The environment: responses of the remote server *)

StatusCodes == {200, 206, 404, 500}

\* str.lower() on a phrase
Lower(p) ==
    CASE p = "Invalid" -> "invalid"
      [] p = "Incorrect" -> "incorrect"
      [] p = "Log Out" -> "log out"
      [] p = "applicationAction=logout" -> "applicationaction=logout"
      [] OTHER -> p

\* 'x' in resp.text, 'x' in resp.text.lower(); a body is the set of phrases in it
Contains(body, p) == p \in body
LowerContains(body, p) == \E q \in body : Lower(q) = p

NoDoc == [table |-> FALSE, hasId |-> FALSE, hasClass |-> FALSE, rows |-> <<>>]

\* session.get/post raised a transport exception (requests.ConnectionError ...)
ExcResp == [kind |-> "exc", status |-> 0, ctype |-> <<>>, body |-> {}, doc |-> NoDoc]

PageResp(status, body) ==
    [kind |-> "resp", status |-> status, ctype |-> <<"text/html">>, body |-> body,
     doc |-> NoDoc]

DocResp(status, doc) ==
    [kind |-> "resp", status |-> status, ctype |-> <<"text/html">>, body |-> {},
     doc |-> doc]

FileResp(status, ctype) ==
    [kind |-> "resp", status |-> status, ctype |-> ctype, body |-> {}, doc |-> NoDoc]

LoginBodies == {{}, {"Log Out"}, {"applicationAction=logout"}, {"Invalid"},
                {"invalid"}, {"Incorrect"}, {"Log Out", "Invalid"},
                {"applicationAction=logout", "incorrect"}}

EntryResps == {ExcResp} \cup {PageResp(s, {}) : s \in StatusCodes}
PostResps == {ExcResp} \cup {PageResp(s, b) : s \in {200, 500}, b \in LoginBodies}
LogoutResps == {ExcResp} \cup {PageResp(s, {}) : s \in {200, 500}}

\* hrefs of anchors
hrefA42 == <<"/", "ap", "/", "pdf", "?", "apVendorId", "[", "]", "=", "4", "2", "&", "pdf", "=", "view">>
hrefA7 == <<"?", "apVendorId", "[", "]", "=", "7">>
hrefEncoded == <<"?", "apVendorId", "%", "5", "B", "%", "5", "D", "=", "9">>
hrefNoDigits == <<"?", "apVendorId", "[", "]", "=", "x", "1">>

RowA ==
    Row(TRUE,
        <<<<"A", "c", "m", "e", " ", "C", "o">>,
           <<"1", "0">>,
           <<"$", "1", "0", "0", ".", "0", "0">>,
           <<"5", "0", "%">>,
           <<"$", "5", "0", ".", "0", "0">>,
           <<"$", "5", "0", ".", "0", "0">>>>,
        <<hrefA42>>)
RowB ==
    Row(TRUE,
        <<<<"B", "e", "t", "a", " ", "L", "L", "C">>,
           <<"5">>,
           <<"$", "4", "0", ".", "0", "0">>,
           <<"2", "5", "%">>,
           <<"$", "1", "0", ".", "0", "0">>,
           <<"$", "3", "0", ".", "0", "0">>>>,
        <<>>)
\* the name of RowA again, without an anchor
RowA2 ==
    Row(TRUE,
        <<<<"A", "c", "m", "e", " ", "C", "o">>,
           <<"1">>,
           <<"$", "1", ",", "2", "3", "4", ".", "5", "0">>,
           <<"N", "/", "A">>,
           <<"$", "0", ".", "5", "0">>,
           <<>>>>,
        <<>>)
RowShort ==
    Row(TRUE,
        <<<<"S", "h", "o", "r", "t">>,
           <<"1">>,
           <<"$", "1", ".", "0", "0">>,
           <<"1", "%">>,
           <<"$", "1", ".", "0", "0">>>>,
        <<hrefA7>>)
RowHeader ==
    Row(FALSE,
        <<<<"V", "e", "n", "d", "o", "r">>,
           <<"Q", "t", "y">>,
           <<"T", "o", "t", "a", "l">>,
           <<"P", "c", "t">>,
           <<"P", "a", "i", "d">>,
           <<"K", "e", "p", "t">>>>,
        <<hrefA42>>)
RowItem1 ==
    Row(TRUE,
        <<<<"S", "1">>,
           <<"L", "a", "m", "p">>,
           <<>>,
           <<"2">>,
           <<"$", "2", "0", ".", "0", "0">>,
           <<"$", "1", "2", ".", "0", "0">>,
           <<"$", "8", ".", "0", "0">>>>,
        <<hrefEncoded, hrefA7, hrefA42>>)
RowItem2 ==
    Row(TRUE,
        <<<<"S", "2">>,
           <<"D", "e", "s", "k">>,
           <<"o", "a", "k">>,
           <<"1", ",", "0", "0", "0">>,
           <<"$", "9", ".", "9", "9">>,
           <<"-", "5">>,
           <<"$", "4", ".", "9", "9">>>>,
        <<hrefNoDigits>>)

RowPool == {RowA, RowB, RowA2, RowShort, RowHeader, RowItem1, RowItem2}

RowSeqs == UNION {[1..n -> RowPool] : n \in 0..MaxRows}

\* documents a report request may return
Docs ==
    {NoDoc, Doc(FALSE, TRUE, <<RowA, RowB>>)}
        \cup {Doc(TRUE, c, rows) : c \in BOOLEAN, rows \in RowSeqs}

\* the documents of the specifications that are not about extraction
SmallDocs == {NoDoc, Doc(TRUE, TRUE, <<RowA, RowB>>), Doc(TRUE, TRUE, <<RowItem1>>)}

\* outcomes of a report request while the server serves document d
ReportResps(d) ==
    {ExcResp} \cup {DocResp(s, NoDoc) : s \in StatusCodes \ {200}}
              \cup {DocResp(200, d)}

ContentTypes == {<<>>, <<"text/html">>, <<"application/pdf">>,
                 <<"application/pdf", ";", "charset=binary">>}

PdfResps == {ExcResp} \cup {FileResp(s, c) : s \in StatusCodes, c \in ContentTypes}

\* what happens to "with open(output_path, 'wb')" and the chunk loop
WriteOutcomes == {"ok", "open_raises", "stream_raises"}

dateDec1 == <<"1", "2", "/", "0", "1", "/", "2", "0", "2", "5">>
dateDec31 == <<"1", "2", "/", "3", "1", "/", "2", "0", "2", "5">>

Periods == {Period(12, 2025, None, None),
            Period(NoneInt, 2025, None, None),
            Period(NoneInt, NoneInt, dateDec1, dateDec31)}

VendorArgs == {<<<<"4", "2">>, <<"A", "c", "m", "e", " ", "C", "o">>>>,
               <<<<"7">>, <<"B", "e", "t", "a", " ", "L", "L", "C">>>>}

----------------------------------------------------------------------------
(* Records of calls *)

Req(method, url, params) == [method |-> method, url |-> url, params |-> params]

\* the arguments of a call
NoArg == [period |-> Period(NoneInt, NoneInt, None, None), vendor_id |-> None,
          vendor_name |-> None, date |-> None, pdf_mode |-> None]

\* op: the method; pre: logged_in when it was called; outcome, exc: whether it
\* returned or raised, and what; reqs: the requests it issued, in order;
\* entry: login()'s response to the entry-page GET; resp: the last response
\* received; bool, records, ids, totals: the value returned; file: what
\* download_vendor_pdf did to output_path; params, url: what _build_date_params
\* and _build_pdf_url returned
NoCall ==
    [op |-> "none", pre |-> FALSE, outcome |-> "return", exc |-> "",
     reqs |-> <<>>, entry |-> ExcResp, resp |-> ExcResp, bool |-> FALSE, file |-> "untouched",
     records |-> <<>>, ids |-> <<>>, totals |-> NoTotals, params |-> <<>>,
     url |-> <<>>, arg |-> NoArg]

Returned(c) == c.outcome = "return"
Raised(c, e) == c.outcome = "raise" /\ c.exc = e

----------------------------------------------------------------------------
(* NRSScraper.login / NRSVendorSales.login *)

login_data ==
    <<<<<<"username">>, <<"self.username">>>>, <<<<"password">>, <<"self.password">>>>,
      <<<<"useCookie">>, <<"useCookie">>>>, <<<<"form">>, <<"loginForm">>>>,
      <<<<"loginFormSubmit">>, <<"Log", " ", "In">>>>, <<<<"ReturnTo">>, <<>>>>>>

EntryReq == Req("GET", BASE_URL \o "/", <<>>)
PostReq == Req("POST", BASE_URL \o "/", login_data)

\* the same test with the two branches in the other order
ScraperLoginVerdict_InvalidFirst(body) ==
    IF Contains(body, "Invalid") \/ LowerContains(body, "incorrect")
    THEN "false"
    ELSE IF Contains(body, "Log Out") \/ Contains(body, "applicationAction=logout")
    THEN "true"
    ELSE "assume"

\* the marker test of NRSScraper.login: "true", "false" or "assume"
ScraperLoginVerdict(body) ==
    IF Contains(body, "Log Out") \/ Contains(body, "applicationAction=logout")
    THEN "true"
    ELSE IF Contains(body, "Invalid") \/ LowerContains(body, "incorrect")
    THEN "false"
    ELSE "assume"

\* the marker test of NRSVendorSales.login
SalesLoginVerdict(body) ==
    Contains(body, "Log Out") \/ Contains(body, "applicationAction=logout")

\* the call record and the new logged_in of a login() call
LoginCall_ResetOnEntryFailure(cl, li, entry, post) ==
    LET base == [NoCall EXCEPT !.op = "login", !.pre = li, !.entry = entry,
                               !.resp = entry, !.reqs = <<EntryReq>>]
        posted == [base EXCEPT !.resp = post, !.reqs = <<EntryReq, PostReq>>]
    IN
    IF entry.kind = "exc"
    THEN <<[base EXCEPT !.outcome = "raise", !.exc = "ConnectionError"], li>>
    ELSE IF entry.status # 200
    THEN <<[base EXCEPT !.bool = FALSE], FALSE>>
    ELSE IF post.kind = "exc"
    THEN <<[posted EXCEPT !.outcome = "raise", !.exc = "ConnectionError"], li>>
    ELSE IF cl = "NRSScraper"
    THEN LET v == ScraperLoginVerdict(post.body) IN
         <<[posted EXCEPT !.bool = (v # "false")],
           IF v = "false" THEN li ELSE TRUE>>
    ELSE LET v == SalesLoginVerdict(post.body) IN
         <<[posted EXCEPT !.bool = v], v>>

LoginCall(cl, li, entry, post) ==
    LET base == [NoCall EXCEPT !.op = "login", !.pre = li, !.entry = entry,
                               !.resp = entry, !.reqs = <<EntryReq>>]
        posted == [base EXCEPT !.resp = post, !.reqs = <<EntryReq, PostReq>>]
    IN
    IF entry.kind = "exc"
    THEN <<[base EXCEPT !.outcome = "raise", !.exc = "ConnectionError"], li>>
    ELSE IF entry.status # 200
    THEN <<[base EXCEPT !.bool = FALSE], li>>
    ELSE IF post.kind = "exc"
    THEN <<[posted EXCEPT !.outcome = "raise", !.exc = "ConnectionError"], li>>
    ELSE IF cl = "NRSScraper"
    THEN LET v == ScraperLoginVerdict(post.body) IN
         <<[posted EXCEPT !.bool = (v # "false")],
           IF v = "false" THEN li ELSE TRUE>>
    ELSE LET v == SalesLoginVerdict(post.body) IN
         <<[posted EXCEPT !.bool = v], v>>

\* the credential POST is only made after an entry page with status 200
LoginWith(entries, posts) ==
    /\ \E entry \in entries :
         \E post \in (IF entry.kind = "resp" /\ entry.status = 200
                       THEN posts ELSE {ExcResp}) :
           LET r == LoginCall(client, logged_in, entry, post) IN
           /\ last' = r[1]
           /\ logged_in' = r[2]
    /\ UNCHANGED <<client, page, pc, args, pending>>

Login ==
    /\ pc = "api"
    /\ LoginWith(EntryResps, PostResps)

----------------------------------------------------------------------------
(* NRSScraper.logout / NRSVendorSales.logout *)

LogoutReq == Req("GET", BASE_URL \o "/?applicationAction=logout", <<>>)

LogoutCall(li, resp) ==
    LET base == [NoCall EXCEPT !.op = "logout", !.pre = li] IN
    IF ~li
    THEN <<base, li>>
    ELSE IF resp.kind = "exc"
    THEN <<[base EXCEPT !.outcome = "raise", !.exc = "ConnectionError",
                        !.reqs = <<LogoutReq>>, !.resp = resp], li>>
    ELSE <<[base EXCEPT !.reqs = <<LogoutReq>>, !.resp = resp], FALSE>>

Logout ==
    /\ pc = "api"
    /\ \E resp \in LogoutResps :
         LET r == LogoutCall(logged_in, resp) IN
         /\ last' = r[1]
         /\ logged_in' = r[2]
    /\ UNCHANGED <<client, page, pc, args, pending>>

----------------------------------------------------------------------------
(* The guard of every fetch method: "if not self.logged_in: raise" *)

\* a guard that lets every call through
MustRaiseNotLoggedIn_Never(li) == FALSE

MustRaiseNotLoggedIn(li) == ~li

----------------------------------------------------------------------------
(* NRSScraper.get_vendor_totals *)

REPORT_URL == BASE_URL \o "/ap/apVendorInventoryTotals"

TotalsReq(p) ==
    Req("GET", REPORT_URL,
        <<<<<<"go">>, <<"yes">>>>, <<<<"search">>, <<"1">>>>,
          <<<<"frmGrouping">>, <<"apVendorId">>>>>> \o _build_date_params(p))

\* the loop that adds vendor_id and pdf_url to one parsed record
AddPdfUrl(vendor, vendor_ids, p) ==
    IF DictHas(vendor_ids, vendor.vendor)
    THEN vendor @@ [vendor_id |-> DictGet(vendor_ids, vendor.vendor),
                    pdf_url |-> _build_pdf_url(DictGet(vendor_ids, vendor.vendor), p,
                                               <<"download">>)]
    ELSE vendor @@ [vendor_id |-> <<>>, pdf_url |-> <<>>]

GetVendorTotalsCall(li, p, resp) ==
    LET base == [NoCall EXCEPT !.op = "get_vendor_totals", !.pre = li,
                               !.arg = [NoArg EXCEPT !.period = p]]
    IN
    IF MustRaiseNotLoggedIn(li)
    THEN [base EXCEPT !.outcome = "raise", !.exc = "RuntimeError"]
    ELSE IF resp.kind = "exc"
    THEN [base EXCEPT !.outcome = "raise", !.exc = "ConnectionError",
                      !.reqs = <<TotalsReq(p)>>, !.resp = resp]
    ELSE IF resp.status # 200
    THEN [base EXCEPT !.reqs = <<TotalsReq(p)>>, !.resp = resp]
    ELSE LET parsed == _parse_vendor_totals(resp.doc)
             vendors == parsed[1]
             vendor_ids == parsed[2]
         IN [base EXCEPT !.reqs = <<TotalsReq(p)>>, !.resp = resp,
                         !.records = [i \in 1..Len(vendors) |->
                                        AddPdfUrl(vendors[i], vendor_ids, p)],
                         !.ids = vendor_ids]

GetVendorTotalsFrom(resps) ==
    /\ pc = "api"
    /\ client = "NRSScraper"
    /\ \E p \in Periods, resp \in resps :
         last' = GetVendorTotalsCall(logged_in, p, resp)
    /\ UNCHANGED <<client, logged_in, page, pc, args, pending>>

----------------------------------------------------------------------------
(* NRSScraper.get_vendor_detail *)

DetailReq(vendor_id, p) ==
    Req("GET", REPORT_URL,
        <<<<<<"go">>, <<"yes">>>>, <<<<"search">>, <<"1">>>>,
          <<<<"frmGrouping">>, <<"invStockId">>>>,
          <<<<"apVendorId", "[", "]">>, vendor_id>>>> \o _build_date_params(p))

GetVendorDetailCall(li, vendor_id, vendor_name, p, resp) ==
    LET base == [NoCall EXCEPT !.op = "get_vendor_detail", !.pre = li,
                               !.arg = [NoArg EXCEPT !.period = p,
                                                     !.vendor_id = vendor_id,
                                                     !.vendor_name = vendor_name]]
    IN
    IF MustRaiseNotLoggedIn(li)
    THEN [base EXCEPT !.outcome = "raise", !.exc = "RuntimeError"]
    ELSE IF resp.kind = "exc"
    THEN [base EXCEPT !.outcome = "raise", !.exc = "ConnectionError",
                      !.reqs = <<DetailReq(vendor_id, p)>>, !.resp = resp]
    ELSE IF resp.status # 200
    THEN [base EXCEPT !.reqs = <<DetailReq(vendor_id, p)>>, !.resp = resp]
    ELSE LET items == _parse_vendor_detail(resp.doc, vendor_name, vendor_id)
             pdf_url == _build_pdf_url(vendor_id, p, <<"download">>)
         IN [base EXCEPT !.reqs = <<DetailReq(vendor_id, p)>>, !.resp = resp,
                         !.records = [i \in 1..Len(items) |->
                                        items[i] @@ [pdf_url |-> pdf_url]]]

GetVendorDetailFrom(resps) ==
    /\ pc = "api"
    /\ client = "NRSScraper"
    /\ \E v \in VendorArgs, p \in Periods, resp \in resps :
         last' = GetVendorDetailCall(logged_in, v[1], v[2], p, resp)
    /\ UNCHANGED <<client, logged_in, page, pc, args, pending>>

----------------------------------------------------------------------------
(* NRSScraper.download_vendor_pdf *)

PdfReq(vendor_id, p) == Req("GET", _build_pdf_url(vendor_id, p, <<"download">>), <<>>)

\* 'application/pdf' in resp.headers.get('Content-Type', '')
IsPdfType(ctype) == \E i \in 1..Len(ctype) : ctype[i] = "application/pdf"

\* resp.status_code == 200 and 'application/pdf' in the Content-Type header
PdfAccepted(resp) == resp.status = 200 /\ IsPdfType(resp.ctype)

\* file: what the call did to output_path
DownloadVendorPdfCall(li, vendor_id, p, resp, write) ==
    LET base == [NoCall EXCEPT !.op = "download_vendor_pdf", !.pre = li,
                               !.arg = [NoArg EXCEPT !.period = p,
                                                     !.vendor_id = vendor_id]]
    IN
    IF MustRaiseNotLoggedIn(li)
    THEN [base EXCEPT !.outcome = "raise", !.exc = "RuntimeError"]
    ELSE IF resp.kind = "exc"
    THEN [base EXCEPT !.outcome = "raise", !.exc = "ConnectionError",
                      !.reqs = <<PdfReq(vendor_id, p)>>, !.resp = resp]
    ELSE IF PdfAccepted(resp)
    THEN CASE write = "open_raises" ->
                [base EXCEPT !.outcome = "raise", !.exc = "OSError",
                             !.reqs = <<PdfReq(vendor_id, p)>>, !.resp = resp]
           [] write = "stream_raises" ->
                [base EXCEPT !.outcome = "raise", !.exc = "ConnectionError",
                             !.reqs = <<PdfReq(vendor_id, p)>>, !.resp = resp,
                             !.file = "partial"]
           [] OTHER ->
                [base EXCEPT !.reqs = <<PdfReq(vendor_id, p)>>, !.resp = resp,
                             !.file = "complete", !.bool = TRUE]
    ELSE [base EXCEPT !.reqs = <<PdfReq(vendor_id, p)>>, !.resp = resp,
                      !.bool = FALSE]

DownloadVendorPdf_DropsSession ==
    /\ pc = "api"
    /\ client = "NRSScraper"
    /\ \E v \in VendorArgs, p \in Periods, resp \in PdfResps :
         \E w \in (IF resp.kind = "resp" /\ PdfAccepted(resp)
                    THEN WriteOutcomes ELSE {"ok"}) :
           last' = DownloadVendorPdfCall(logged_in, v[1], p, resp, w)
    /\ logged_in' = (logged_in /\ last'.bool)
    /\ UNCHANGED <<client, page, pc, args, pending>>

DownloadVendorPdf ==
    /\ pc = "api"
    /\ client = "NRSScraper"
    /\ \E v \in VendorArgs, p \in Periods, resp \in PdfResps :
         \E w \in (IF resp.kind = "resp" /\ PdfAccepted(resp)
                    THEN WriteOutcomes ELSE {"ok"}) :
           last' = DownloadVendorPdfCall(logged_in, v[1], p, resp, w)
    /\ UNCHANGED <<client, logged_in, page, pc, args, pending>>

----------------------------------------------------------------------------
(* NRSVendorSales.get_daily_vendor_sales *)

DailyReq(date) ==
    Req("GET", REPORT_URL,
        <<<<<<"go">>, <<"yes">>>>, <<<<"search">>, <<"1">>>>,
          <<<<"frmDateRangeOrYear">>, <<"D">>>>,
          <<<<"invoiceDate_op">>, <<"2">>>>,
          <<<<"invoiceDate">>, date>>,
          <<<<"invoiceDate_two">>, date>>,
          <<<<"frmGrouping">>, <<"apVendorId">>>>>>)

GetDailyVendorSalesCall(li, date, resp) ==
    LET base == [NoCall EXCEPT !.op = "get_daily_vendor_sales", !.pre = li,
                               !.arg = [NoArg EXCEPT !.date = date]]
    IN
    IF MustRaiseNotLoggedIn(li)
    THEN [base EXCEPT !.outcome = "raise", !.exc = "RuntimeError"]
    ELSE IF resp.kind = "exc"
    THEN [base EXCEPT !.outcome = "raise", !.exc = "ConnectionError",
                      !.reqs = <<DailyReq(date)>>, !.resp = resp]
    ELSE IF resp.status # 200
    THEN [base EXCEPT !.reqs = <<DailyReq(date)>>, !.resp = resp]
    ELSE LET data == _parse_vendor_sales(resp.doc, date) IN
         [base EXCEPT !.reqs = <<DailyReq(date)>>, !.resp = resp,
                      !.records = data.vendors, !.totals = data.totals]

GetDailyVendorSalesFrom(resps) ==
    /\ pc = "api"
    /\ client = "NRSVendorSales"
    /\ \E date \in {dateDec1, dateDec31}, resp \in resps :
         last' = GetDailyVendorSalesCall(logged_in, date, resp)
    /\ UNCHANGED <<client, logged_in, page, pc, args, pending>>

----------------------------------------------------------------------------
(* NRSScraper.get_all_vendor_details *)

\* the loop over vendor_ids.items(); resps[i] is the outcome of the i-th
\* request; acc is the call record so far, all_items in acc.records
RECURSIVE AllDetailsLoop(_, _, _, _, _, _)
AllDetailsLoop(li, vendor_ids, p, resps, i, acc) ==
    IF i > Len(vendor_ids) THEN acc
    ELSE LET c == GetVendorDetailCall(li, vendor_ids[i][2], vendor_ids[i][1], p, resps[i])
             met == [acc EXCEPT !.reqs = acc.reqs \o c.reqs, !.resp = c.resp]
         IN IF c.outcome = "raise"
            THEN [met EXCEPT !.outcome = "raise", !.exc = c.exc]
            ELSE AllDetailsLoop(li, vendor_ids, p, resps, i + 1,
                                [met EXCEPT !.records = acc.records \o c.records])

GetAllVendorDetailsCall(li, vendor_ids, p, resps) ==
    AllDetailsLoop(li, vendor_ids, p, resps, 1,
                   [NoCall EXCEPT !.op = "get_all_vendor_details", !.pre = li,
                                  !.ids = vendor_ids,
                                  !.arg = [NoArg EXCEPT !.period = p]])

\* the (vendor name, vendor id) pairs a vendor index is made of
VendorEntries ==
    {<<v[2], v[1]>> : v \in VendorArgs} \cup {<<<<"G", "a", "m", "m", "a">>, <<"9">>>>}

\* vendor_ids: a dict from vendor name to vendor id, in insertion order
VendorIndexes ==
    {s \in UNION {[1..n -> VendorEntries] : n \in 0..MaxVendors} :
        \A i, j \in 1..Len(s) : i # j => s[i][1] # s[j][1]}

\* what one request of a sweep meets: a transport failure, an error status
\* or the report page
SweepResps(d) == {ExcResp, DocResp(404, NoDoc), DocResp(200, d)}

GetAllVendorDetails ==
    /\ pc = "api"
    /\ client = "NRSScraper"
    /\ \E vendor_ids \in VendorIndexes, p \in Periods :
         \E resps \in [1..Len(vendor_ids) -> SweepResps(page)] :
            last' = GetAllVendorDetailsCall(logged_in, vendor_ids, p, resps)
    /\ UNCHANGED <<client, logged_in, page, pc, args, pending>>

----------------------------------------------------------------------------
(* main() of nrs_scraper.py and of nrs_daily_vendor_sales.py, from the       *)
(* construction of the session object on                                   *)

NoArgs == [detail |-> FALSE, period |-> Period(NoneInt, NoneInt, None, None),
           date |-> None]

\* command lines that pass the argument checks
MainArgs ==
    {[detail |-> d, period |-> p, date |-> dt] :
        d \in BOOLEAN, p \in Periods, dt \in {dateDec1}}

\* open() or a write of the output layer fails or not
SaveOutcomes == {"ok", "raises"}

\* scraper = NRSScraper(username, password) / NRSVendorSales(username, password)
MainConstruct ==
    /\ pc = "start"
    /\ logged_in' = FALSE
    /\ last' = NoCall
    /\ pc' = "login"
    /\ UNCHANGED <<client, page, args, pending>>

\* if not scraper.login(): return 1
MainLogin ==
    /\ pc = "login"
    /\ \E entry \in EntryResps :
         \E post \in (IF entry.kind = "resp" /\ entry.status = 200
                       THEN PostResps ELSE {ExcResp}) :
           LET r == LoginCall(client, logged_in, entry, post) IN
           /\ last' = r[1]
           /\ logged_in' = r[2]
           /\ IF r[1].outcome = "raise"
              THEN pc' = "finally" /\ pending' = "raise ConnectionError"
              ELSE IF ~r[1].bool
              THEN pc' = "finally" /\ pending' = "return 1"
              ELSE pc' = "fetch" /\ UNCHANGED pending
    /\ UNCHANGED <<client, page, args>>

\* vendor_data, vendor_ids = scraper.get_vendor_totals(**date_kwargs)
\* data = scraper.get_daily_vendor_sales(args.date)
MainFetch ==
    /\ pc = "fetch"
    /\ \E resp \in ReportResps(page) :
         LET c == IF client = "NRSScraper"
                  THEN GetVendorTotalsCall(logged_in, args.period, resp)
                  ELSE GetDailyVendorSalesCall(logged_in, args.date, resp)
         IN /\ last' = c
            /\ IF c.outcome = "raise"
               THEN pc' = "finally" /\ pending' = "raise " \o c.exc
               ELSE IF client = "NRSScraper" /\ c.records = <<>>
               THEN pc' = "finally" /\ pending' = "return 0"
               ELSE pc' = "save" /\ UNCHANGED pending
    /\ UNCHANGED <<client, logged_in, page, args>>

\* save_to_csv / save_to_json / print_summary of the summary;
\* the json, csv or table output of the daily sales
MainSave ==
    /\ pc = "save"
    /\ \E w \in SaveOutcomes :
         IF w = "raises"
         THEN pc' = "finally" /\ pending' = "raise OSError"
         ELSE IF client = "NRSScraper" /\ args.detail /\ last.ids # <<>>
         THEN pc' = "details" /\ UNCHANGED pending
         ELSE pc' = "finally" /\ pending' = "return 0"
    /\ UNCHANGED <<client, logged_in, page, last, args>>

\* detail_data = scraper.get_all_vendor_details(vendor_ids, **date_kwargs)
MainDetails ==
    /\ pc = "details"
    /\ \E resps \in [1..Len(last.ids) -> ReportResps(page)] :
         LET c == GetAllVendorDetailsCall(logged_in, last.ids, args.period, resps) IN
         /\ last' = c
         /\ IF c.outcome = "raise"
            THEN pc' = "finally" /\ pending' = "raise " \o c.exc
            ELSE IF c.records = <<>>
            THEN pc' = "finally" /\ pending' = "return 0"
            ELSE pc' = "save_detail" /\ UNCHANGED pending
    /\ UNCHANGED <<client, logged_in, page, args>>

\* save_to_csv / save_to_json / print_summary of the detail
MainSaveDetail ==
    /\ pc = "save_detail"
    /\ \E w \in SaveOutcomes :
         /\ pc' = "finally"
         /\ pending' = IF w = "raises" THEN "raise OSError" ELSE "return 0"
    /\ UNCHANGED <<client, logged_in, page, last, args>>

\* finally: scraper.logout(); an exception of logout() replaces what was pending
MainFinally ==
    /\ pc = "finally"
    /\ \E resp \in LogoutResps :
         LET r == LogoutCall(logged_in, resp) IN
         /\ last' = r[1]
         /\ logged_in' = r[2]
         /\ pending' = IF r[1].outcome = "raise" THEN "raise " \o r[1].exc ELSE pending
    /\ pc' = "done"
    /\ UNCHANGED <<client, page, args>>

InitMain ==
    /\ client \in Clients
    /\ logged_in = FALSE
    /\ page \in SmallDocs
    /\ last = NoCall
    /\ pc = "start"
    /\ args \in MainArgs
    /\ pending = "none"

NextMain ==
    \/ MainConstruct
    \/ MainLogin
    \/ MainFetch
    \/ MainSave
    \/ MainDetails
    \/ MainSaveDetail
    \/ MainFinally

SpecMain == InitMain /\ [][NextMain]_vars

----------------------------------------------------------------------------

Init ==
    /\ client \in Clients
    /\ logged_in = FALSE
    /\ page \in SmallDocs
    /\ last = NoCall
    /\ pc = "api"
    /\ args = NoArgs
    /\ pending = "none"

GetVendorTotals == GetVendorTotalsFrom(ReportResps(page))
GetVendorDetail == GetVendorDetailFrom(ReportResps(page))
GetDailyVendorSales == GetDailyVendorSalesFrom(ReportResps(page))

Next ==
    \/ Login
    \/ Logout
    \/ GetVendorTotals
    \/ GetVendorDetail
    \/ DownloadVendorPdf
    \/ GetDailyVendorSales
    \/ GetAllVendorDetails

Spec == Init /\ [][Next]_vars

----------------------------------------------------------------------------
(* Extraction: a session that logs in and fetches the reports of a server  *)
(* that answers every report request with the document page               *)

InitParse ==
    /\ client \in Clients
    /\ logged_in = FALSE
    /\ page \in Docs
    /\ last = NoCall
    /\ pc = "api"
    /\ args = NoArgs
    /\ pending = "none"

ParseLogin ==
    /\ pc = "api"
    /\ LoginWith({PageResp(200, {})}, {PageResp(200, {"Log Out"})})

ParseTotals == GetVendorTotalsFrom({DocResp(200, page)})
ParseDetail == GetVendorDetailFrom({DocResp(200, page)})
ParseDaily == GetDailyVendorSalesFrom({DocResp(200, page)})

NextParse ==
    \/ ParseLogin
    \/ ParseTotals
    \/ ParseDetail
    \/ ParseDaily

SpecParse == InitParse /\ [][NextParse]_vars

----------------------------------------------------------------------------
(* The parameter builders alone: every combination of arguments, in either *)
(* session state                                                           *)

MonthArgs == {NoneInt, 0, 1, 12}
YearArgs == {NoneInt, 2025}
StartArgs == {None, <<>>, dateDec1}
EndArgs == {None, <<>>, dateDec31}

PeriodArgs ==
    {Period(m, y, s, e) : m \in MonthArgs, y \in YearArgs, s \in StartArgs, e \in EndArgs}

VendorIdArgs == {<<"4", "2">>, <<"7">>, <<"a", "&", "b", "=", "+", " ", "%">>}

PdfModes == {<<"download">>, <<"view">>}

InitUrl ==
    /\ client = "NRSScraper"
    /\ logged_in = FALSE
    /\ page = NoDoc
    /\ last = NoCall
    /\ pc = "api"
    /\ args = NoArgs
    /\ pending = "none"

BuildDateParams ==
    /\ pc = "api"
    /\ \E p \in PeriodArgs :
         last' = [NoCall EXCEPT !.op = "_build_date_params", !.pre = logged_in,
                                !.arg = [NoArg EXCEPT !.period = p],
                                !.params = _build_date_params(p)]
    /\ UNCHANGED <<client, logged_in, page, pc, args, pending>>

BuildPdfUrl ==
    /\ pc = "api"
    /\ \E vendor_id \in VendorIdArgs, p \in PeriodArgs, pdf_mode \in PdfModes :
         last' = [NoCall EXCEPT !.op = "_build_pdf_url", !.pre = logged_in,
                                !.arg = [NoArg EXCEPT !.period = p,
                                                      !.vendor_id = vendor_id,
                                                      !.pdf_mode = pdf_mode],
                                !.url = _build_pdf_url(vendor_id, p, pdf_mode)]
    /\ UNCHANGED <<client, logged_in, page, pc, args, pending>>

NextUrl ==
    \/ ParseLogin
    \/ Logout
    \/ BuildDateParams
    \/ BuildPdfUrl

SpecUrl == InitUrl /\ [][NextUrl]_vars

----------------------------------------------------------------------------
(* Properties of the session, under Spec *)

FetchOps == {"get_vendor_totals", "get_vendor_detail", "download_vendor_pdf",
             "get_daily_vendor_sales"}

\* C1: a fetch method called while LoggedOut fails with the not-authenticated
\* error (RuntimeError "Not logged in") and issues no network request.
C1_FetchLoggedOutFails ==
    (last.op \in FetchOps /\ ~last.pre)
        => (Raised(last, "RuntimeError") /\ last.reqs = <<>>)

\* a download attempted while LoggedOut raised
C1_Witness ==
    /\ last.op = "download_vendor_pdf" /\ ~last.pre
    /\ last.outcome = "raise"

\* C2: logout() called while LoggedIn issues exactly one logout-action GET
\* and leaves the session LoggedOut; called while LoggedOut it issues no
\* request and the session stays LoggedOut.
C2_LogoutIdempotent ==
    last.op = "logout"
        => /\ ~logged_in
           /\ last.reqs = (IF last.pre THEN <<LogoutReq>> ELSE <<>>)

EntryFailed(c) == c.entry.kind = "exc" \/ c.entry.status # 200

LoginTrue(c) == c.op = "login" /\ Returned(c) /\ c.bool

\* C3: the session becomes LoggedIn only through a login() that returns
\* true, and a login() whose entry-page fetch does not succeed returns false
\* without the credential POST and without making the session LoggedIn.
C3_LoginFailsFast ==
    /\ (logged_in /\ ~last.pre) => LoginTrue(last)
    /\ (last.op = "login" /\ EntryFailed(last))
         => /\ Returned(last) /\ ~last.bool
            /\ last.reqs = <<EntryReq>>
            /\ logged_in = last.pre

SuccessMarker(body) == body \cap {"Log Out", "applicationAction=logout"} # {}
InvalidMarker(body) == body \cap {"Invalid", "incorrect", "Incorrect"} # {}

\* login() received the response of the credential POST
Posted(c) == c.op = "login" /\ Len(c.reqs) = 2 /\ c.resp.kind = "resp"

\* the three-way outcome: success marker, else invalid marker (the call does
\* not make the session LoggedIn), else success
ThreeWay(c, li) ==
    IF SuccessMarker(c.resp.body) THEN Returned(c) /\ c.bool /\ li
    ELSE IF InvalidMarker(c.resp.body) THEN Returned(c) /\ ~c.bool /\ (li => c.pre)
    ELSE Returned(c) /\ c.bool /\ li

\* the two-way outcome: success marker or failure
TwoWay(c, li) ==
    IF SuccessMarker(c.resp.body) THEN Returned(c) /\ c.bool /\ li
    ELSE Returned(c) /\ ~c.bool /\ ~li

Transient(r) == r.kind = "exc" \/ r.status \notin 200..299

\* C6: while LoggedIn, a summary or detail fetch that suffers a transient
\* failure returns an empty result and the session stays LoggedIn.
C6_TransientGivesEmpty ==
    (last.op \in {"get_vendor_totals", "get_vendor_detail"} /\ last.pre
       /\ Transient(last.resp))
        => /\ Returned(last) /\ last.records = <<>> /\ last.ids = <<>>
           /\ logged_in

Is2xx(r) == r.kind = "resp" /\ r.status \in 200..299
SaysPdf(r) == \E i \in 1..Len(r.ctype) : r.ctype[i] = "application/pdf"

Downloaded(c) == c.op = "download_vendor_pdf" /\ c.pre

\* C7: download_vendor_pdf called while LoggedIn reports success if and
\* only if the response status is 2xx and the content type says PDF; in
\* every other case it reports failure and writes nothing to the output file.
C7_SuccessIff2xxPdf ==
    Downloaded(last)
        => LET success == Returned(last) /\ last.bool IN
           /\ success <=> (Is2xx(last.resp) /\ SaysPdf(last.resp))
           /\ ~success => (Returned(last) /\ ~last.bool /\ last.file = "untouched")

\* the position in the vendor index of the entry a returned item carries
EntryOf(c, k) ==
    CHOOSE i \in 1..Len(c.ids) : c.ids[i] = <<c.records[k].vendor, c.records[k].vendor_id>>

\* C11: a sweep on a LoggedIn session returns; it has issued exactly one
\* detail request per entry of the vendor index, in the index's insertion
\* order; every returned item carries the name and id of an index entry and
\* the download URL built from that id; and the items lie in the order of
\* the index entries they were fetched for.
C11_SweepInOrder ==
    (last.op = "get_all_vendor_details" /\ last.pre) =>
        /\ Returned(last)
        /\ Len(last.reqs) = Len(last.ids)
        /\ \A i \in 1..Len(last.reqs) :
              last.reqs[i] = DetailReq(last.ids[i][2], last.arg.period)
        /\ \A k \in 1..Len(last.records) :
              /\ \E i \in 1..Len(last.ids) :
                    last.ids[i] = <<last.records[k].vendor, last.records[k].vendor_id>>
              /\ last.records[k].pdf_url =
                    _build_pdf_url(last.records[k].vendor_id, last.arg.period, <<"download">>)
        /\ \A k, l \in 1..Len(last.records) :
              k < l => EntryOf(last, k) <= EntryOf(last, l)

\* login() returned false
LoginFalse(c) == c.op = "login" /\ Returned(c) /\ ~c.bool

\* C14 as stated: after a login() that returns false the session is
\* LoggedOut, whatever it was before.
C14_FailedLoginLogsOut == LoginFalse(last) => ~logged_in

\* C14: a login() that returns false never makes the session LoggedIn, and
\* it makes a LoggedIn session LoggedOut in one case only: NRSVendorSales
\* after a credential POST answered without a success marker. So a session
\* that was LoggedOut is LoggedOut afterwards, and a LoggedIn session stays
\* LoggedIn when the entry page fails (both clients) or NRSScraper reads an
\* invalid-credentials marker.
C14_FailedLoginState ==
    LoginFalse(last) =>
        logged_in = (last.pre /\ ~(client = "NRSVendorSales" /\ Posted(last)))

\* a LoggedIn NRSScraper session whose re-login was refused with an
\* invalid-credentials marker: login() returned false, the session is LoggedIn
C14_Witness ==
    /\ LoginFalse(last)
    /\ last.pre
    /\ client = "NRSScraper"
    /\ Posted(last)
    /\ InvalidMarker(last.resp.body)
    /\ logged_in

SessionOps == {"login", "logout"}

\* C15: after any fetch operation (get_vendor_totals, get_vendor_detail,
\* get_all_vendor_details, download_vendor_pdf, get_daily_vendor_sales),
\* whether it returned records, an empty result or a failure or raised,
\* logged_in has the value it had when the operation was called; a call after
\* which logged_in differs is a login() or a logout().
C15_FetchKeepsSession ==
    /\ last.op \in FetchOps \cup {"get_all_vendor_details"} => logged_in = last.pre
    /\ logged_in # last.pre => last.op \in SessionOps

\* a sweep on a LoggedIn session ended by a transport failure, the session
\* still LoggedIn
C15_Witness ==
    /\ last.op = "get_all_vendor_details"
    /\ last.pre
    /\ Raised(last, "ConnectionError")
    /\ logged_in

----------------------------------------------------------------------------
(* Properties of the parameter builders, under SpecUrl *)

\* an argument counts as given when it holds a value of its type: a month
\* 1..12, a non-empty date string
GivenMonth(p) == p.month \in 1..12
GivenRange(p) == /\ p.start_date # None /\ p.start_date # <<>>
                 /\ p.end_date # None /\ p.end_date # <<>>

Keys(d) == {d[i][1] : i \in 1..Len(d)}
IsMapping(d) == \A i, j \in 1..Len(d) : d[i][1] = d[j][1] => i = j

RangeFields == {<<"invoiceDate_op">>, <<"invoiceDate">>, <<"invoiceDate_two">>,
                <<"invoiceDate_thr">>, <<"invoiceDate_rg">>, <<"invoiceDate_d">>}

\* C12: for every combination of arguments the query-level parameters are
\* those of exactly one period shape: the between-filter (operator 2) with
\* the two dates as given when both dates are given, whatever month and year
\* are; otherwise the month and the year when a month is given; otherwise the
\* year alone; and no field of another shape is present.
C12_OneShape ==
    last.op = "_build_date_params" =>
        LET p == last.arg.period
            d == last.params
        IN /\ IsMapping(d)
           /\ IF GivenRange(p)
              THEN /\ Keys(d) = {<<"frmDateRangeOrYear">>} \cup RangeFields
                   /\ DictGet(d, <<"frmDateRangeOrYear">>) = <<"D">>
                   /\ DictGet(d, <<"invoiceDate_op">>) = <<"2">>
                   /\ DictGet(d, <<"invoiceDate">>) = p.start_date
                   /\ DictGet(d, <<"invoiceDate_two">>) = p.end_date
              ELSE IF GivenMonth(p)
              THEN /\ Keys(d) = {<<"frmDateRangeOrYear">>, <<"frmMonth">>, <<"frmYear">>}
                   /\ DictGet(d, <<"frmDateRangeOrYear">>) = <<"M">>
                   /\ DictGet(d, <<"frmMonth">>) = NatStr(p.month)
                   /\ DictGet(d, <<"frmYear">>) = PyStr(p.year)
              ELSE /\ Keys(d) = {<<"frmDateRangeOrYear">>, <<"frmYear">>}
                   /\ DictGet(d, <<"frmDateRangeOrYear">>) = <<"Y">>
                   /\ DictGet(d, <<"frmYear">>) = PyStr(p.year)

\* month, year and both dates all supplied: the date-range shape came out
C12_Witness ==
    /\ last.op = "_build_date_params"
    /\ last.arg.period = Period(12, 2025, dateDec1, dateDec31)
    /\ DictGet(last.params, <<"frmDateRangeOrYear">>) = <<"D">>

\* the query string of a URL: what follows its first "?"
RECURSIVE QueryOf(_)
QueryOf(u) ==
    IF u = <<>> THEN <<>>
    ELSE IF u[1] = "?" THEN Tail(u) ELSE QueryOf(Tail(u))

\* the position of the first sep in s, 0 when there is none
FirstAt(s, sep) ==
    IF \A i \in 1..Len(s) : s[i] # sep THEN 0
    ELSE CHOOSE i \in 1..Len(s) : s[i] = sep /\ \A j \in 1..(i - 1) : s[j] # sep

\* s cut at every sep
RECURSIVE Split(_, _)
Split(s, sep) ==
    IF FirstAt(s, sep) = 0 THEN <<s>>
    ELSE <<SubSeq(s, 1, FirstAt(s, sep) - 1)>>
         \o Split(SubSeq(s, FirstAt(s, sep) + 1, Len(s)), sep)

\* the character a percent escape stands for
Escapes ==
    {<<"2", "F", "/">>, <<"5", "B", "[">>, <<"5", "D", "]">>, <<"2", "6", "&">>,
     <<"3", "D", "=">>, <<"2", "5", "%">>, <<"2", "B", "+">>, <<"3", "F", "?">>,
     <<"2", "4", "$">>, <<"2", "C", ",">>}

IsEscape(s) ==
    Len(s) >= 3 /\ s[1] = "%" /\ \E e \in Escapes : e[1] = s[2] /\ e[2] = s[3]

\* decoding of a query-string component: "+" is a space, %XX a character
RECURSIVE UnquotePlus(_)
UnquotePlus(s) ==
    IF s = <<>> THEN <<>>
    ELSE IF s[1] = "+" THEN <<" ">> \o UnquotePlus(Tail(s))
    ELSE IF IsEscape(s)
    THEN <<(CHOOSE e \in Escapes : e[1] = s[2] /\ e[2] = s[3])[3]>>
         \o UnquotePlus(SubSeq(s, 4, Len(s)))
    ELSE <<s[1]>> \o UnquotePlus(Tail(s))

\* one name=value field, cut at its first "="
QueryField(f) ==
    IF FirstAt(f, "=") = 0 THEN <<UnquotePlus(f), <<>>>>
    ELSE <<UnquotePlus(SubSeq(f, 1, FirstAt(f, "=") - 1)),
           UnquotePlus(SubSeq(f, FirstAt(f, "=") + 1, Len(f)))>>

\* the fields of a query string, blank values kept
ParseQuery(q) ==
    IF q = <<>> THEN <<>>
    ELSE [i \in 1..Len(Split(q, "&")) |-> QueryField(Split(q, "&")[i])]

\* a period of one of the three shapes: a date range, a month of a year, a year
IsRangePeriod(p) ==
    GivenRange(p) /\ p.month = NoneInt /\ p.year = NoneInt
IsMonthPeriod(p) ==
    GivenMonth(p) /\ p.year # NoneInt /\ p.start_date = None /\ p.end_date = None
IsYearPeriod(p) ==
    p.month = NoneInt /\ p.year # NoneInt /\ p.start_date = None /\ p.end_date = None

FixedFields == {<<"go">>, <<"search">>, <<"apVendorId", "[", "]">>, <<"rptSetupId">>,
                <<"pdf">>}

\* C13: whatever the session state, the query string of the URL built for a
\* vendor id, a mode and a period of one of the three shapes parses to a
\* mapping that holds the vendor id under apVendorId[], the mode under pdf,
\* 434 under rptSetupId, and as period fields exactly those of the period
\* supplied, with the values supplied: the two dates of a range, the month and
\* year of a month, the year of a year.
C13_RoundTrip ==
    (last.op = "_build_pdf_url"
       /\ (IsRangePeriod(last.arg.period) \/ IsMonthPeriod(last.arg.period)
              \/ IsYearPeriod(last.arg.period))) =>
        LET p == last.arg.period
            q == ParseQuery(QueryOf(last.url))
        IN /\ last.url[1] = PDF_URL
           /\ IsMapping(q)
           /\ FixedFields \subseteq Keys(q)
           /\ DictGet(q, <<"apVendorId", "[", "]">>) = last.arg.vendor_id
           /\ DictGet(q, <<"pdf">>) = last.arg.pdf_mode
           /\ DictGet(q, <<"rptSetupId">>) = <<"4", "3", "4">>
           /\ IF IsRangePeriod(p)
              THEN /\ Keys(q) \ FixedFields = RangeFields
                   /\ DictGet(q, <<"invoiceDate">>) = p.start_date
                   /\ DictGet(q, <<"invoiceDate_two">>) = p.end_date
              ELSE IF IsMonthPeriod(p)
              THEN /\ Keys(q) \ FixedFields = {<<"invoiceMonth">>, <<"invoiceYear">>}
                   /\ DictGet(q, <<"invoiceMonth">>) = NatStr(p.month)
                   /\ DictGet(q, <<"invoiceYear">>) = NatStr(p.year)
              ELSE /\ Keys(q) \ FixedFields = {<<"invoiceYear">>}
                   /\ DictGet(q, <<"invoiceYear">>) = NatStr(p.year)

\* a view URL built on a LoggedIn session for a date range and a vendor id
\* with characters that need escaping
C13_Witness ==
    /\ last.op = "_build_pdf_url"
    /\ logged_in
    /\ last.arg.vendor_id = <<"a", "&", "b", "=", "+", " ", "%">>
    /\ last.arg.pdf_mode = <<"view">>
    /\ last.arg.period = Period(NoneInt, NoneInt, dateDec1, dateDec31)
    /\ Len(last.url) > 2

----------------------------------------------------------------------------
(* Properties of main(), under SpecMain *)

\* C5: every run of main() that constructs a session client executes
\* logout() before it ends, so no run ends with the session still LoggedIn.
C5_MainEndsLoggedOut ==
    pc = "done" => (last.op = "logout" /\ ~logged_in)

----------------------------------------------------------------------------
(* Properties of the extraction, under SpecParse *)

\* the table both parsers of NRSScraper look for is in the document
Located(doc) == doc.table /\ doc.hasId /\ doc.hasClass

\* positions of the data rows of doc that have at least min cells
DataRows(doc, min) ==
    {i \in 1..Len(doc.rows) : doc.rows[i].hover /\ Len(doc.rows[i].cells) >= min}

\* the k-th of them, from the top
KthDataRow(doc, min, k) ==
    doc.rows[CHOOSE i \in DataRows(doc, min) :
                Cardinality({j \in DataRows(doc, min) : j <= i}) = k]

\* some anchor of the row matches apVendorId[]=<digits>
HasIdAnchor(row) ==
    \E l \in 1..Len(row.links) : \E i \in 1..Len(row.links[l]) : MatchAt(row.links[l], i)

\* the call parsed a document it received with status 200
Parsed(c, op) ==
    c.op = op /\ c.pre /\ Returned(c) /\ c.resp.kind = "resp" /\ c.resp.status = 200

\* C8: a summary record of get_vendor_totals parsed from a row without a
\* matching anchor has an empty vendor_id and an empty pdf_url, also when
\* several rows show the same vendor name.
C8_NoAnchorNoId ==
    (Parsed(last, "get_vendor_totals") /\ Located(last.resp.doc))
        => \A k \in 1..Len(last.records) :
             ~HasIdAnchor(KthDataRow(last.resp.doc, SummaryMinCells, k))
                => (last.records[k].vendor_id = <<>> /\ last.records[k].pdf_url = <<>>)

AcmeCo == <<"A", "c", "m", "e", " ", "C", "o">>
BetaLLC == <<"B", "e", "t", "a", " ", "L", "L", "C">>

\* the document of the end-to-end scenario: one table with id
\* ListSectionTable, rows A and B
IsScenarioDoc(doc) == doc.table /\ doc.hasId /\ doc.rows = <<RowA, RowB>>

NameOf(c, k) ==
    IF c.op = "get_vendor_totals" THEN c.records[k].vendor ELSE c.records[k].vendor_name

\* C9: on the scenario document the summary extraction yields exactly the
\* records A (vendor_id "42") and B (vendor_id ""), in that order, with
\* totals total_sales = 140.00 and vendor_count = 2.
C9_EndToEnd ==
    ((Parsed(last, "get_vendor_totals") \/ Parsed(last, "get_daily_vendor_sales"))
       /\ IsScenarioDoc(last.resp.doc))
        => /\ Len(last.records) = 2
           /\ NameOf(last, 1) = AcmeCo /\ last.records[1].vendor_id = <<"4", "2">>
           /\ NameOf(last, 2) = BetaLLC /\ last.records[2].vendor_id = <<>>
           /\ last.op = "get_daily_vendor_sales"
                => (~last.totals.empty /\ last.totals.total_sales = 14000
                      /\ last.totals.vendor_count = 2)

\* C10: table extraction returns exactly one record per data row with at
\* least the minimum number of cells (6 for the summary, 7 for the detail),
\* in top-to-bottom order; a shorter row is skipped and the rows after it
\* are still extracted.
C10_OneRecordPerRow ==
    /\ (Parsed(last, "get_vendor_totals") /\ Located(last.resp.doc))
         => /\ Len(last.records) = Cardinality(DataRows(last.resp.doc, 6))
            /\ \A k \in 1..Len(last.records) :
                 LET cells == KthDataRow(last.resp.doc, 6, k).cells IN
                 /\ last.records[k].vendor = cells[1]
                 /\ last.records[k].quantity = _parse_int(cells[2])
                 /\ last.records[k].retained_amount = _parse_currency(cells[6])
    /\ (Parsed(last, "get_vendor_detail") /\ Located(last.resp.doc))
         => /\ Len(last.records) = Cardinality(DataRows(last.resp.doc, 7))
            /\ \A k \in 1..Len(last.records) :
                 LET cells == KthDataRow(last.resp.doc, 7, k).cells IN
                 /\ last.records[k].stock_number = cells[1]
                 /\ last.records[k].item_name = cells[2]
                 /\ last.records[k].retained_amount = _parse_currency(cells[7])

\* a short row on top of a full one: the full one was extracted
C10_Witness ==
    /\ Parsed(last, "get_vendor_totals") /\ Located(last.resp.doc)
    /\ last.resp.doc.rows = <<RowShort, RowB>>
    /\ Len(last.records) = 1 /\ last.records[1].vendor = BetaLLC

====
